---- MODULE Spec2Model ----
(***************************************************************************)
(* Model of the Nexblue cloud client (custom_components/nexblue/api.py),   *)
(* the polling coordinator (coordinator.py) and their callers.             *)
(*                                                                         *)
(* A coroutine runs without interruption between two awaits that really    *)
(* suspend (an HTTP exchange), so one action is one such stretch: the      *)
(* arrival of a response, everything the coroutine does with it, and the   *)
(* sending of the next HTTP request.                                       *)
(***************************************************************************)
EXTENDS Integers, FiniteSets, Sequences, TLC

(* ------------------------------ bounds -------------------------------- *)
\* the clock stops here
MaxTime == 15
\* at most this many 401 answers to auth-required requests in one run
Max401 == 2

(* ------------------------- program constants -------------------------- *)
TOKEN_SAFETY_MARGIN == 30
MIN_TOKEN_LIFETIME == 5
DEFAULT_EXPIRES_IN == 3600
NoExpiry == -1

Fragments == {"detail", "status", "schedule"}
Commands == {"start_charging", "stop_charging", "set_current_limit", "set_schedule_mode"}
\* serial numbers the account may list; "" is a relation without serial number
Serials == {"A", "B"}
NoSerial == ""

CmdReq == <<"", "cmd">>
ListReq == <<"", "list">>
FragReq(d, f) == <<d, f>>
FragReqs == {FragReq(d, f) : d \in Serials \cup {NoSerial}, f \in Fragments}
ReqIds == {CmdReq, ListReq} \cup FragReqs

VARIABLES
    now,                 \* datetime.now(timezone.utc), in seconds
    access_token,        \* NexblueAPI._access_token
    refresh_token,       \* NexblueAPI._refresh_token ("none" = None)
    token_expiry,        \* NexblueAPI._token_expiry (NoExpiry = None)
    req,                 \* the _request coroutines, one per logical request
    call,                \* the command coroutine of the client
    gc,                  \* the get_chargers coroutine and its caller
    data,                \* DataUpdateCoordinator.data, the published snapshot
    last_update_success, \* DataUpdateCoordinator.last_update_success
    last_auth,           \* the last answer _login or _refresh_access_token got
    hass,                \* the config entry: its setup, hass.data[DOMAIN], its platforms
    entities,            \* the tracked set of each platform: the chargers with an entity
    added,               \* how often a platform has made the entities of a charger
    native_max_value,    \* NexblueCurrentLimitNumber._attr_native_max_value, per charger
    select_options,      \* _option_to_slug and _selectable_labels of the select, per charger
    last_seen,           \* the record of its charger the number entity last read
    options,             \* entry.options[CONF_SCAN_INTERVAL] of the config entry
    update_interval,     \* update_interval of the coordinator, in seconds (0: none built)
    action               \* the service call of an entity under way or last made

\* the state of the platforms and their entities
ui == <<hass, entities, added, native_max_value, select_options, last_seen,
        options, update_interval>>

vars == <<now, access_token, refresh_token, token_expiry, req, call, gc, data,
          last_update_success, last_auth, hass, entities, added, native_max_value,
          select_options, last_seen, options, update_interval, action>>

(* ------------------------------ tokens -------------------------------- *)
\* An access token is identified by the moment it was issued and the moment
\* the server lets it expire (issued + expires_in).
NoToken == [held |-> FALSE, issued |-> 0, exp |-> 0]
Token(t, e) == [held |-> TRUE, issued |-> t, exp |-> e]

\* the token state of the client, as one value
Client == [access |-> access_token, refresh |-> refresh_token, expiry |-> token_expiry]

Max(a, b) == IF a >= b THEN a ELSE b
Min(a, b) == IF a <= b THEN a ELSE b

\* the body of a login or refresh answer
AuthData(access, has_exp, exp, refresh) ==
    [access |-> access, has_exp |-> has_exp, expires_in |-> exp, refresh |-> refresh]

TokenValidMut(c, t) ==
    c.access.held /\ c.expiry # NoExpiry /\ t <= c.expiry

\* _ensure_access_token, line 228: the stored token may be used as it is
TokenValid(c, t) ==
    c.access.held /\ c.expiry # NoExpiry /\ t < c.expiry

NewExpiryMut(d, t) ==
    LET expires_in == Max(IF d.has_exp THEN d.expires_in ELSE DEFAULT_EXPIRES_IN, 0)
    IN  IF expires_in <= TOKEN_SAFETY_MARGIN
        THEN t + MIN_TOKEN_LIFETIME
        ELSE t + expires_in

NewExpiryFloorMut(d, t) ==
    LET expires_in == Max(IF d.has_exp THEN d.expires_in ELSE DEFAULT_EXPIRES_IN, 0)
    IN  t + Max(expires_in - TOKEN_SAFETY_MARGIN, MIN_TOKEN_LIFETIME)

NewExpiryStrictMut(d, t) ==
    LET expires_in == Max(IF d.has_exp THEN d.expires_in ELSE DEFAULT_EXPIRES_IN, 0)
    IN  IF expires_in < TOKEN_SAFETY_MARGIN
        THEN t + MIN_TOKEN_LIFETIME
        ELSE t + (expires_in - TOKEN_SAFETY_MARGIN)

\* _update_tokens, lines 274-280: the stored expiry
NewExpiry(d, t) ==
    LET expires_in == Max(IF d.has_exp THEN d.expires_in ELSE DEFAULT_EXPIRES_IN, 0)
    IN  IF expires_in <= TOKEN_SAFETY_MARGIN
        THEN t + MIN_TOKEN_LIFETIME
        ELSE t + (expires_in - TOKEN_SAFETY_MARGIN)

NewRefreshMut(c, d, keep_refresh) ==
    IF d.refresh # "none" THEN d.refresh ELSE c.refresh

NewRefreshDropMut(c, d, keep_refresh) == d.refresh

\* _update_tokens, lines 281-284: the stored refresh token
NewRefresh(c, d, keep_refresh) ==
    IF ~keep_refresh THEN d.refresh
    ELSE IF d.refresh # "none" THEN d.refresh
    ELSE c.refresh

\* _update_tokens: the token state it leaves (it raises afterwards, at
\* line 287, when the answer holds no access token)
UpdateTokens(c, d, keep_refresh, t) ==
    [access  |-> IF d.access
                 THEN Token(t, t + (IF d.has_exp THEN d.expires_in ELSE DEFAULT_EXPIRES_IN))
                 ELSE NoToken,
     refresh |-> NewRefresh(c, d, keep_refresh),
     expiry  |-> NewExpiry(d, t)]

(* ------------------------- HTTP exchanges ----------------------------- *)
\* What an HTTP exchange of session.request can end in:
\*   "ok"           a status below 400
\*   "401"          status 401
\*   "http_error"   any other status >= 400
\*   "client_error" aiohttp.ClientError (connection refused, reset, ...)
\*   "timeout"      the total timeout of REQUEST_TIMEOUT: asyncio.TimeoutError,
\*                  which is no aiohttp.ClientError
Statuses == {"ok", "401", "http_error", "client_error", "timeout"}

\* the parsed body (lines 318-326): a JSON object, nothing, or other text
BodyKinds == {"dict", "empty", "text"}

\* a login or refresh answer
AuthResp(status, kind, d) == [status |-> status, kind |-> kind, data |-> d]
NoAuthData == AuthData(FALSE, FALSE, 0, "none")

\* an integer field of a JSON body that may be missing
NoValue == [has |-> FALSE, val |-> 0]
Value(v) == [has |-> TRUE, val |-> v]

\* an answer to an auth-required request; of the body only what the callers
\* read: the result code of a command, the relations of the device list,
\* the online flag and circuit_data.fuse of a detail fragment, schedule_mode
\* and uk_reg of a schedule fragment
Resp(status, kind, has_result, result, rels, online) ==
    [status |-> status, kind |-> kind, has_result |-> has_result, result |-> result,
     rels |-> rels, online |-> online, fuse |-> NoValue, mode |-> NoValue,
     uk_reg |-> FALSE]
DetailResp(online, fuse) ==
    [Resp("ok", "dict", FALSE, 0, {}, online) EXCEPT !.fuse = fuse]
ScheduleResp(mode, uk_reg) ==
    [Resp("ok", "dict", FALSE, 0, {}, FALSE) EXCEPT !.mode = mode, !.uk_reg = uk_reg]
NoResp == Resp("ok", "empty", FALSE, 0, {}, FALSE)

(* --------------------------- _request --------------------------------- *)
\* One logical request: the coroutine _request(method, path) together with
\* the one recursive call it may make.
\*   pc       where the coroutine is suspended
\*   retry    the retry argument of the running invocation
\*   sends    how often the request itself went to the server
\*   n401     how many of these sends were answered 401
\*   hdr      the Authorization header of the last send
\*   resp     the last answer to the request itself
\*   sent_at  the time of the last send
\*   reauth   the re-authentication under way or last done: where it was
\*            started (via), whether a refresh token was held then, and how
\*            its refresh and login requests went: "no" (not made), "sent",
\*            "ok", "failed" (NexblueAuthError) or "timeout"; hdr is the
\*            Authorization header of its last request
NoReauth ==
    [via |-> "none", held |-> FALSE, refresh |-> "no", login |-> "no", hdr |-> NoToken]
FreshReq ==
    [pc |-> "idle", retry |-> TRUE, sends |-> 0, n401 |-> 0, outcome |-> "none",
     hdr |-> NoToken, sent_at |-> 0, resp |-> NoResp, reauth |-> NoReauth]

Done(rq, outcome) == [rq EXCEPT !.pc = "done", !.outcome = outcome]

RequestHeaderMut(auth_required, c) == c.access

\* lines 303-305: the Authorization header of a request is the stored access
\* token as it is, and there is none (NoToken) when the request needs no
\* authentication or no access token is stored
RequestHeader(auth_required, c) ==
    IF auth_required /\ c.access.held THEN c.access ELSE NoToken

\* lines 302-317: the request goes out, carrying the stored access token
Send(c, rq, t) ==
    [rq EXCEPT !.pc = "sent", !.sends = @ + 1, !.hdr = RequestHeader(TRUE, c),
               !.sent_at = t]

\* _ensure_access_token, lines 228-238, up to its first HTTP request:
\* nothing to do, or a refresh when a refresh token is held, or a login
EnsureAccessToken(c, rq, t) ==
    IF TokenValid(c, t) THEN Send(c, rq, t)
    ELSE IF c.refresh # "none"
    THEN [rq EXCEPT !.pc = "ens_refresh",
                    !.reauth = [via |-> "ensure", held |-> TRUE,
                                refresh |-> "sent", login |-> "no",
                                hdr |-> RequestHeader(FALSE, c)]]
    ELSE [rq EXCEPT !.pc = "ens_login",
                    !.reauth = [via |-> "ensure", held |-> FALSE,
                                refresh |-> "no", login |-> "sent",
                                hdr |-> RequestHeader(FALSE, c)]]

EnterMut(c, rq, retry, t) == EnsureAccessToken(c, [rq EXCEPT !.retry = TRUE], t)

\* _request(..., retry), lines 299-317, for an auth-required request
Enter(c, rq, retry, t) == EnsureAccessToken(c, [rq EXCEPT !.retry = retry], t)

\* What _login (lines 246-252) and _refresh_access_token (lines 263-269) do
\* with the answer. These requests are sent with auth_required=False, so a
\* 401 is an HTTP error like any other. NexblueAPIError becomes
\* NexblueAuthError; asyncio.TimeoutError is not caught.
AuthRaises(a) ==
    CASE a.status = "timeout" -> "TimeoutError"
      [] a.status # "ok" -> "AuthError"
      [] a.kind # "dict" -> "AuthError"
      [] ~a.data.access -> "AuthError"
      [] OTHER -> "none"

AuthClient(c, a, keep_refresh, t) ==
    IF a.status = "ok" /\ a.kind = "dict" THEN UpdateTokens(c, a.data, keep_refresh, t)
    ELSE c

Login(c, a, t) == [c |-> AuthClient(c, a, FALSE, t), raised |-> AuthRaises(a)]
RefreshAccessToken(c, a, t) == [c |-> AuthClient(c, a, TRUE, t), raised |-> AuthRaises(a)]

\* how a re-authentication request ended, for the record in reauth
Failed(raised) == IF raised = "TimeoutError" THEN "timeout" ELSE "failed"

\* The record of one call of _login or _refresh_access_token: the answer it
\* got (status, kind, d) and when, the refresh token held before, the token
\* state it left and what it raised.
NoAuth ==
    [op |-> "none", status |-> "ok", kind |-> "empty", d |-> NoAuthData, at |-> 0,
     held |-> "none",
     after |-> [access |-> NoToken, refresh |-> "none", expiry |-> NoExpiry],
     raised |-> "none"]
AuthCall(op, c, a, t) ==
    LET r == IF op = "login" THEN Login(c, a, t) ELSE RefreshAccessToken(c, a, t)
    IN  [op |-> op, status |-> a.status, kind |-> a.kind, d |-> a.data, at |-> t,
         held |-> c.refresh, after |-> r.c, raised |-> r.raised]

OnEnsureRefreshMut(c, rq, a, t) ==
    LET r == RefreshAccessToken(c, a, t)
    IN  IF r.raised = "none"
        THEN [c |-> r.c, rq |-> Send(r.c, [rq EXCEPT !.reauth.refresh = "ok"], t)]
        ELSE [c |-> r.c, rq |-> Done([rq EXCEPT !.reauth.refresh = Failed(r.raised)],
                                     r.raised)]

\* _ensure_access_token, lines 231-238, when the refresh answer arrives:
\* a NexblueAPIError makes it fall back to the login
OnEnsureRefresh(c, rq, a, t) ==
    LET r == RefreshAccessToken(c, a, t)
    IN  CASE r.raised = "none" ->
               [c |-> r.c, rq |-> Send(r.c, [rq EXCEPT !.reauth.refresh = "ok"], t)]
          [] r.raised = "AuthError" ->
               [c |-> r.c, rq |-> [rq EXCEPT !.pc = "ens_login",
                                             !.reauth.refresh = "failed",
                                             !.reauth.login = "sent",
                                             !.reauth.hdr = RequestHeader(FALSE, r.c)]]
          [] OTHER ->
               [c |-> r.c, rq |-> Done([rq EXCEPT !.reauth.refresh = "timeout"], r.raised)]

OnEnsureLoginMut(c, rq, a, t) ==
    LET r == Login(c, a, t)
    IN  IF r.raised = "none"
        THEN [c |-> r.c, rq |-> Send(r.c, [rq EXCEPT !.reauth.login = "ok"], t)]
        ELSE [c |-> r.c, rq |-> [rq EXCEPT !.reauth.login = "sent"]]

\* _ensure_access_token, line 238, when the login answer arrives
OnEnsureLogin(c, rq, a, t) ==
    LET r == Login(c, a, t)
    IN  IF r.raised = "none"
        THEN [c |-> r.c, rq |-> Send(r.c, [rq EXCEPT !.reauth.login = "ok"], t)]
        ELSE [c |-> r.c, rq |-> Done([rq EXCEPT !.reauth.login = Failed(r.raised)], r.raised)]

HandleUnauthorizedMut(c, rq) ==
    [c  |-> [c EXCEPT !.access = NoToken, !.expiry = NoExpiry],
     rq |-> Done(rq, "AuthError")]

\* _handle_unauthorized, lines 352-357, up to its HTTP request
HandleUnauthorized(c, rq) ==
    [c  |-> [c EXCEPT !.access = NoToken, !.expiry = NoExpiry],
     rq |-> IF c.refresh # "none"
            THEN [rq EXCEPT !.pc = "un_refresh",
                            !.reauth = [via |-> "unauthorized", held |-> TRUE,
                                        refresh |-> "sent", login |-> "no",
                                        hdr |-> RequestHeader(FALSE, c)]]
            ELSE [rq EXCEPT !.pc = "un_login",
                            !.reauth = [via |-> "unauthorized", held |-> FALSE,
                                        refresh |-> "no", login |-> "sent",
                                        hdr |-> RequestHeader(FALSE, c)]]]

\* lines 328-349: what _request does with the answer to the request itself
\* (rq.resp keeps the answer)
OnResponse(c, rq0, resp, t) ==
    LET rq == [rq0 EXCEPT !.resp = resp]
    IN  CASE resp.status = "401" ->
                IF rq.retry
                THEN HandleUnauthorized(c, [rq EXCEPT !.n401 = @ + 1])
                ELSE [c |-> c, rq |-> Done([rq EXCEPT !.n401 = @ + 1], "AuthError")]
          [] resp.status = "http_error" -> [c |-> c, rq |-> Done(rq, "APIError")]
          [] resp.status = "client_error" -> [c |-> c, rq |-> Done(rq, "APIError")]
          [] resp.status = "timeout" -> [c |-> c, rq |-> Done(rq, "TimeoutError")]
          [] OTHER -> [c |-> c, rq |-> Done(rq, "ok")]

\* lines 331-339: _handle_unauthorized returns or raises; on return the
\* request is issued again with retry=False
OnUnauthorizedRefresh(c, rq, a, t) ==
    LET r == RefreshAccessToken(c, a, t)
    IN  IF r.raised = "none"
        THEN [c |-> r.c, rq |-> Enter(r.c, [rq EXCEPT !.reauth.refresh = "ok"], FALSE, t)]
        ELSE [c |-> r.c, rq |-> Done([rq EXCEPT !.reauth.refresh = Failed(r.raised)], r.raised)]

OnUnauthorizedLogin(c, rq, a, t) ==
    LET r == Login(c, a, t)
    IN  IF r.raised = "none"
        THEN [c |-> r.c, rq |-> Enter(r.c, [rq EXCEPT !.reauth.login = "ok"], FALSE, t)]
        ELSE [c |-> r.c, rq |-> Done([rq EXCEPT !.reauth.login = Failed(r.raised)], r.raised)]

(* --------------------------- commands --------------------------------- *)
\* start_charging, stop_charging, set_current_limit, set_schedule_mode
\* (lines 185-225): response.get("result") if the body is an object, else None
ResultCode(resp) ==
    [has |-> resp.kind = "dict" /\ resp.has_result,
     code |-> IF resp.kind = "dict" /\ resp.has_result THEN resp.result ELSE 0]

\* the four commands share one test: result not in (None, 0)
CommandRaisesMut(cmd, resp) ==
    IF cmd = "set_schedule_mode" THEN ResultCode(resp).has
    ELSE ResultCode(resp).has /\ ResultCode(resp).code # 0

CommandRaises(cmd, resp) ==
    ResultCode(resp).has /\ ResultCode(resp).code # 0

\* the command coroutine: idle, running, returned (None) or raised
IdleCall == [pc |-> "idle", cmd |-> "none", error |-> "none", code |-> 0]

\* the command resumes when its request has ended
CommandResume(cl, rq) ==
    IF rq.outcome # "ok"
    THEN [cl EXCEPT !.pc = "raised", !.error = rq.outcome]
    ELSE IF CommandRaises(cl.cmd, rq.resp)
    THEN [cl EXCEPT !.pc = "raised", !.error = "CommandError",
                    !.code = ResultCode(rq.resp).code]
    ELSE [cl EXCEPT !.pc = "returned"]

(* --------------------------- get_chargers ----------------------------- *)
\* A fragment of a NexblueChargerData: kind "dict" is a JSON object, "empty"
\* is {}, "text" a body that is no object, "none" is None.
Fragment(kind, online) ==
    [kind |-> kind, online |-> online, fuse |-> NoValue, mode |-> NoValue,
     uk_reg |-> FALSE]
EmptyFragment == Fragment("empty", FALSE)
NoneFragment == Fragment("none", FALSE)
NoRecord == [detail |-> EmptyFragment, status |-> EmptyFragment, schedule |-> NoneFragment]
EmptySnapshot == [d \in {} |-> NoRecord]

\* lines 157, 162, 167: result or {}
OrEmpty(resp) ==
    IF resp.kind = "empty" THEN EmptyFragment
    ELSE [Fragment(resp.kind, resp.online) EXCEPT
              !.fuse = resp.fuse, !.mode = resp.mode, !.uk_reg = resp.uk_reg]

MaxConfigurableCurrentMut(rec) ==
    IF rec.detail.kind = "dict" /\ rec.detail.fuse.has
    THEN Min(32, rec.detail.fuse.val)
    ELSE 32

\* NexblueChargerData.circuit_fuse (lines 92-101): None unless the detail
\* holds circuit_data with a fuse that int() takes
CircuitFuse(rec) ==
    IF rec.detail.kind = "dict" THEN rec.detail.fuse ELSE NoValue

\* NexblueChargerData.max_configurable_current (lines 103-107)
MaxConfigurableCurrent(rec) ==
    LET fuse == CircuitFuse(rec)
        max_limit == IF ~fuse.has THEN 32 ELSE Min(32, fuse.val)
    IN  Max(6, max_limit)

\* SCHEDULE_MODE_MAP (const.py 35-39) and SELECTABLE_SCHEDULE_MODES (41)
SCHEDULE_MODE_MAP == (0 :> "off_peak") @@ (1 :> "eco") @@ (2 :> "schedule_charge")
SELECTABLE_SCHEDULE_MODES == {0, 2}

\* NexblueChargerData.schedule_mode_id (lines 71-78) and schedule_mode
\* (80-85): the slug of the mode, "none" for None
ScheduleModeId(rec) ==
    IF rec.schedule.kind = "dict" THEN rec.schedule.mode ELSE NoValue
ScheduleMode(rec) ==
    LET mode_id == ScheduleModeId(rec)
    IN  IF mode_id.has /\ mode_id.val \in DOMAIN SCHEDULE_MODE_MAP
        THEN SCHEDULE_MODE_MAP[mode_id.val]
        ELSE "none"

\* NexblueChargerData.uk_reg (lines 87-90)
UkReg(rec) == rec.schedule.kind = "dict" /\ rec.schedule.uk_reg

\* the get_chargers coroutine and who awaits it
\*   pc      "idle", "running" or "done"
\*   caller  "coordinator" (_async_update_data) or "config_flow"
\*           (_async_validate_input)
\*   phase   "list" while GET /chargers is out, "fragments" afterwards
\*   rels    the serial numbers of relation_items (NoSerial: none given)
\*   raised  the exception get_chargers ended with, or "none"
\*   result  the dict it returned
\*   seen    what the caller made of it
IdleGC ==
    [pc |-> "idle", caller |-> "none", phase |-> "list", rels |-> {}, raised |-> "none",
     result |-> EmptySnapshot, seen |-> "none"]

ListedMut(rels) == rels

\* the devices of relation_items that _fetch_single does not skip (line 139)
Listed(rels) == rels \ {NoSerial}

FetchSingleMut(d, rq) ==
    [detail   |-> IF rq[FragReq(d, "detail")].outcome # "ok" THEN EmptyFragment
                  ELSE OrEmpty(rq[FragReq(d, "detail")].resp),
     status   |-> IF rq[FragReq(d, "status")].outcome # "ok" THEN EmptyFragment
                  ELSE OrEmpty(rq[FragReq(d, "status")].resp),
     schedule |-> IF rq[FragReq(d, "schedule")].outcome # "ok" THEN NoneFragment
                  ELSE IF rq[FragReq(d, "status")].outcome # "ok" THEN NoneFragment
                  ELSE OrEmpty(rq[FragReq(d, "schedule")].resp)]

\* _fetch_single, lines 150-174: the record of device d once its three
\* requests have ended; gather(return_exceptions=True) hands every exception
\* of a request over as its result
FetchSingle(d, rq) ==
    [detail   |-> IF rq[FragReq(d, "detail")].outcome # "ok" THEN EmptyFragment
                  ELSE OrEmpty(rq[FragReq(d, "detail")].resp),
     status   |-> IF rq[FragReq(d, "status")].outcome # "ok" THEN EmptyFragment
                  ELSE OrEmpty(rq[FragReq(d, "status")].resp),
     schedule |-> IF rq[FragReq(d, "schedule")].outcome # "ok" THEN NoneFragment
                  ELSE OrEmpty(rq[FragReq(d, "schedule")].resp)]

\* lines 176-183: the dict of the devices that have a serial number
Chargers(rels, rq) == [d \in Listed(rels) |-> FetchSingle(d, rq)]

JoinedMut(rels, rq) ==
    \A d \in Listed(rels) : \E f \in Fragments : rq[FragReq(d, f)].pc = "done"

\* line 176: every request of every listed device has ended
Joined(rels, rq) ==
    \A d \in Listed(rels) : \A f \in Fragments : rq[FragReq(d, f)].pc = "done"

\* lines 137-148: the three requests of each listed device start; each runs
\* up to its first HTTP request before anything else happens
Launch(rels, rq, c, t) ==
    [r \in ReqIds |->
        IF r \in FragReqs /\ r[1] \in Listed(rels)
        THEN Enter(c, FreshReq, TRUE, t)
        ELSE rq[r]]

\* lines 131-135 and 176: get_chargers goes on with the answer to GET
\* /chargers: it raises what the request raised, fails on a body that is no
\* object, returns {} for an empty list, or starts the fragment requests
AfterList(g, rq, c, t) ==
    LET l == rq[ListReq]
        rels == IF l.resp.kind = "dict" THEN l.resp.rels ELSE {}
    IN  CASE l.outcome # "ok" ->
               [gc |-> [g EXCEPT !.pc = "done", !.raised = l.outcome], req |-> rq]
          [] l.resp.kind = "text" ->
               [gc |-> [g EXCEPT !.pc = "done", !.raised = "AttributeError"], req |-> rq]
          [] Listed(rels) = {} ->
               [gc |-> [g EXCEPT !.pc = "done", !.rels = rels, !.result = EmptySnapshot],
                req |-> rq]
          [] OTHER ->
               [gc |-> [g EXCEPT !.phase = "fragments", !.rels = rels],
                req |-> Launch(rels, rq, c, t)]

\* lines 176-183: a fragment request has ended; get_chargers returns once
\* all of them have
AfterFragment(g, rq) ==
    IF Joined(g.rels, rq)
    THEN [gc |-> [g EXCEPT !.pc = "done", !.result = Chargers(g.rels, rq)], req |-> rq]
    ELSE [gc |-> g, req |-> rq]

(* ---------------------------- coordinator ----------------------------- *)
APIErrors == {"APIError", "AuthError", "CommandError"}

UpdateDataMut(g) ==
    IF g.raised \in APIErrors THEN "none" ELSE g.raised

\* _async_update_data, coordinator.py lines 49-53: what it raises
UpdateData(g) ==
    IF g.raised \in APIErrors THEN "UpdateFailed" ELSE g.raised

\* _async_validate_input, config_flow.py lines 120-131: its result, or
\* "exception" when get_chargers raised something it does not catch
ValidateInputResult(g) ==
    CASE g.raised = "none" -> "entry"
      [] g.raised = "AuthError" -> "invalid_auth"
      [] g.raised \in APIErrors -> "cannot_connect"
      [] OTHER -> "exception"

\* The published snapshot is a record: none is TRUE until a first fetch has
\* succeeded (DataUpdateCoordinator.data is None).
Snapshot(chargers) == [none |-> FALSE, chargers |-> chargers]
NoData == [none |-> TRUE, chargers |-> EmptySnapshot]
NonEmpty(snap) == DOMAIN snap.chargers # {}

\* DataUpdateCoordinator refresh around _async_update_data: a returned dict
\* becomes data and sets last_update_success, an exception leaves data alone
\* and clears last_update_success
RefreshData(g, old) == IF UpdateData(g) = "none" THEN Snapshot(g.result) ELSE old
RefreshSuccess(g) == UpdateData(g) = "none"

\* available of the sensor (sensor.py 142-145), switch (switch.py 66-69),
\* number (number.py 77-80) and select (select.py 82-85) entity of charger d
ChargerData(d) == IF d \in DOMAIN data.chargers THEN {data.chargers[d]} ELSE {}
Online(rec) == rec.detail.kind = "dict" /\ rec.detail.online
SensorAvailableMut(d) == ChargerData(d) # {}
SensorAvailable(d) == last_update_success /\ ChargerData(d) # {}
SwitchAvailable(d) ==
    last_update_success /\ \E rec \in ChargerData(d) : Online(rec)
NumberAvailable(d) == last_update_success /\ ChargerData(d) # {}
SelectAvailable(d) ==
    last_update_success /\ \E rec \in ChargerData(d) : rec.schedule.kind # "none"

(* ----------------------- setup, platforms, entities ------------------- *)
\* PLATFORMS (const.py 6-11)
PLATFORMS == {"sensor", "switch", "number", "select"}

\* MIN_CURRENT_LIMIT, MAX_CURRENT_LIMIT (number.py 15-16)
MIN_CURRENT_LIMIT == 6
MAX_CURRENT_LIMIT == 32

NoHass == [state |-> "none", registered |-> FALSE, platforms |-> {}]

\* DEFAULT_SCAN_INTERVAL (const.py 18)
DEFAULT_SCAN_INTERVAL == 60
\* vol.Range(min=30, max=600) (config_flow.py 160)
MIN_SCAN_INTERVAL == 30
MAX_SCAN_INTERVAL == 600

\* coordinator.py lines 38-40: options.get(CONF_SCAN_INTERVAL, DEFAULT_SCAN_INTERVAL)
ScanInterval(o) == IF o.has THEN o.val ELSE DEFAULT_SCAN_INTERVAL

\* the schema of the options form, config_flow.py lines 153-162
SchemaAccepts(v) == MIN_SCAN_INTERVAL <= v /\ v <= MAX_SCAN_INTERVAL

\* __init__.py line 29: async_reload_entry listens to updates of the entry
\* from the end of a setup that succeeded until the entry is unloaded
UpdateListener(h) == h.state = "loaded"

\* async_unload_entry, __init__.py lines 34-40
UnloadEntry(h) == [state |-> "none", registered |-> FALSE, platforms |-> {}]

SetupFinishMut(g, h) ==
    [state |-> IF UpdateData(g) # "none" THEN "not_ready" ELSE "loaded",
     registered |-> TRUE, platforms |-> PLATFORMS]

\* async_setup_entry, __init__.py lines 20-31, once the first refresh has
\* ended: async_config_entry_first_refresh raises when the refresh failed and
\* every exception becomes ConfigEntryNotReady; otherwise the coordinator is
\* registered and the platforms are forwarded
SetupFinish(g, h) ==
    IF UpdateData(g) # "none"
    THEN [h EXCEPT !.state = "not_ready"]
    ELSE [state |-> "loaded", registered |-> TRUE, platforms |-> PLATFORMS]

\* the chargers for which the discovery callback of platform p makes an
\* entity (sensor.py 92-98, switch.py 28-32, number.py 26-32, select.py 28-36)
Discovered(p, chargers) ==
    IF p = "select"
    THEN {d \in DOMAIN chargers :
             chargers[d].schedule.kind # "none" /\ ScheduleMode(chargers[d]) # "none"}
    ELSE DOMAIN chargers

\* the tracked sets after the discovery callbacks have run on a snapshot
Tracked(ents, snap) == [p \in PLATFORMS |-> ents[p] \cup Discovered(p, snap.chargers)]

NewEntitiesMut(p, ents, snap) == Discovered(p, snap.chargers)

\* the chargers whose entities the discovery callback of platform p hands
\* to async_add_entities: those it makes an entity for and has not tracked
\* (sensor.py 93-94, switch.py 29-30, number.py 27-28, select.py 29-30)
NewEntities(p, ents, snap) == Discovered(p, snap.chargers) \ ents[p]

\* the count of the entities made, after the discovery callbacks have run
Added(old, ents, snap) ==
    [p \in PLATFORMS |->
        [d \in Serials |->
            IF d \in NewEntities(p, ents, snap) THEN old[p][d] + 1 ELSE old[p][d]]]

NumberUpdateMut(old, snap) == old

\* NexblueCurrentLimitNumber.__init__ (number.py 66-68) and
\* _handle_coordinator_update (117-122): the maximum follows the charger
\* while the snapshot holds it
NumberUpdate(old, snap) ==
    [d \in Serials |->
        IF d \in DOMAIN snap.chargers
        THEN MaxConfigurableCurrent(snap.chargers[d])
        ELSE old[d]]

\* NexblueScheduleModeSelect._refresh_options (select.py 148-172); a label
\* stands for its slug
NoOptions == [option_to_slug |-> {}, selectable_labels |-> {}]
RefreshOptions(snap, d) ==
    IF d \notin DOMAIN snap.chargers THEN NoOptions
    ELSE LET rec == snap.chargers[d]
             selectable == {SCHEDULE_MODE_MAP[m] :
                               m \in {x \in SELECTABLE_SCHEDULE_MODES : x # 0 \/ UkReg(rec)}}
             current == {ScheduleMode(rec)} \ {"none"}
         IN  [option_to_slug |-> selectable \cup current,
              selectable_labels |-> selectable]

\* the options of the select entities after a notification
SelectUpdate(old, ents, snap) ==
    [d \in Serials |-> IF d \in ents["select"] THEN RefreshOptions(snap, d) ELSE old[d]]

\* The listeners of the coordinator run on the snapshot: the discovery
\* callbacks and _handle_coordinator_update of the entities.
Notify(snap) ==
    /\ entities' = Tracked(entities, snap)
    /\ added' = Added(added, entities, snap)
    /\ native_max_value' = NumberUpdate(native_max_value, snap)
    /\ select_options' = SelectUpdate(select_options, Tracked(entities, snap), snap)
    /\ last_seen' = [d \in Serials |->
                        IF d \in DOMAIN snap.chargers THEN snap.chargers[d]
                        ELSE last_seen[d]]

\* int(round(value)) (number.py 90) of a value given in half amperes: a
\* tie goes to the even integer
Round(h) ==
    IF h % 2 = 0 THEN h \div 2
    ELSE IF ((h - 1) \div 2) % 2 = 0 THEN (h - 1) \div 2
    ELSE (h + 1) \div 2

TargetMut(h, max_value) == Max(MIN_CURRENT_LIMIT, Round(h))

\* async_set_native_value, number.py lines 90-93
Target(h, max_value) ==
    LET target == Round(h)
        min_value == MIN_CURRENT_LIMIT
        max_v == IF max_value # 0 THEN max_value ELSE MAX_CURRENT_LIMIT
    IN  Max(min_value, Min(target, max_v))

\* set_current_limit, api.py line 204: the payload it sends
CurrentLimitPayload(current_limit) == current_limit

\* the service call of an entity: which entity of which charger, the value
\* or option asked for, what was passed to the client (target) and what the
\* client put into the request (payload), how the call ended, the result
\* code in the message of the error, and whether async_request_refresh was
\* called
IdleAction ==
    [pc |-> "idle", entity |-> "none", charger |-> "", value |-> 0, option |-> "none",
     target |-> NoValue, payload |-> NoValue, error |-> "none", code |-> NoValue,
     refresh |-> FALSE]

EntityResumeMut(act, cl) ==
    IF cl.pc = "returned" THEN [act EXCEPT !.pc = "returned", !.refresh = TRUE]
    ELSE IF cl.error = "CommandError"
    THEN [act EXCEPT !.pc = "raised", !.error = "HomeAssistantError",
                     !.code = Value(cl.code), !.refresh = TRUE]
    ELSE IF cl.error \in APIErrors
    THEN [act EXCEPT !.pc = "raised", !.error = "HomeAssistantError", !.refresh = TRUE]
    ELSE [act EXCEPT !.pc = "raised", !.error = cl.error]

\* _send_command (switch.py 84-92), async_set_native_value (number.py
\* 95-104), async_select_option (select.py 121-130) once the client call
\* has ended
EntityResume(act, cl) ==
    IF cl.pc = "returned" THEN [act EXCEPT !.pc = "returned", !.refresh = TRUE]
    ELSE IF cl.error = "CommandError"
    THEN [act EXCEPT !.pc = "raised", !.error = "HomeAssistantError",
                     !.code = Value(cl.code)]
    ELSE IF cl.error \in APIErrors
    THEN [act EXCEPT !.pc = "raised", !.error = "HomeAssistantError"]
    ELSE [act EXCEPT !.pc = "raised", !.error = cl.error]

SelectCheckMut(opts, snap, d, option) ==
    IF option \notin opts.option_to_slug THEN "unsupported"
    ELSE IF d \notin DOMAIN snap.chargers THEN "unavailable"
    ELSE IF option \notin opts.selectable_labels THEN "not_selectable"
    ELSE IF option = ScheduleMode(snap.chargers[d]) THEN "current"
    ELSE "call"

\* async_select_option, select.py lines 102-119: "call" when it goes on to
\* the client, else how it ends before
SelectCheck(opts, snap, d, option) ==
    IF option \notin opts.option_to_slug THEN "unsupported"
    ELSE IF d \notin DOMAIN snap.chargers THEN "unavailable"
    ELSE IF option = ScheduleMode(snap.chargers[d]) THEN "current"
    ELSE IF option \notin opts.selectable_labels THEN "not_selectable"
    ELSE "call"

\* SCHEDULE_MODE_REVERSE_MAP (const.py 49)
ModeId(slug) == CHOOSE m \in DOMAIN SCHEDULE_MODE_MAP : SCHEDULE_MODE_MAP[m] = slug

(* ---------------------------- actions --------------------------------- *)
\* the 401 answers given to the requests at hand
Total401 == Cardinality({<<r, i>> \in ReqIds \X {1, 2} : i <= req[r].n401})

SetClient(c) ==
    /\ access_token' = c.access
    /\ refresh_token' = c.refresh
    /\ token_expiry' = c.expiry

\* The caller of get_chargers goes on once get_chargers has ended.
CallerResume(g) ==
    IF g.pc # "done"
    THEN /\ gc' = g
         /\ UNCHANGED <<data, last_update_success, ui>>
    ELSE IF g.caller = "coordinator"
    THEN /\ gc' = [g EXCEPT !.seen = UpdateData(g)]
         /\ data' = RefreshData(g, data)
         /\ last_update_success' = RefreshSuccess(g)
         /\ UNCHANGED <<hass, options, update_interval>>
         /\ IF hass.platforms # {}
            THEN Notify(RefreshData(g, data))
            ELSE UNCHANGED <<entities, added, native_max_value, select_options, last_seen>>
    ELSE IF g.caller = "setup"
    THEN /\ gc' = [g EXCEPT !.seen = UpdateData(g)]
         /\ data' = RefreshData(g, data)
         /\ last_update_success' = RefreshSuccess(g)
         /\ hass' = SetupFinish(g, hass)
         /\ UNCHANGED <<options, update_interval>>
         /\ IF SetupFinish(g, hass).platforms # {}
            THEN Notify(RefreshData(g, data))
            ELSE UNCHANGED <<entities, added, native_max_value, select_options, last_seen>>
    ELSE /\ gc' = [g EXCEPT !.seen = ValidateInputResult(g)]
         /\ UNCHANGED <<data, last_update_success, ui>>

\* The coroutine awaiting request r goes on once r has ended.
Continue(r, req1, c) ==
    IF r = CmdReq
    THEN /\ req' = req1
         /\ call' = CommandResume(call, req1[r])
         /\ action' = IF action.pc = "running"
                       THEN EntityResume(action, CommandResume(call, req1[r]))
                       ELSE action
         /\ UNCHANGED <<gc, data, last_update_success, ui>>
    ELSE LET out == IF r = ListReq THEN AfterList(gc, req1, c, now)
                    ELSE AfterFragment(gc, req1)
         IN  /\ req' = out.req
             /\ CallerResume(out.gc)
             /\ UNCHANGED <<call, action>>

\* the step of request r ended in out = [c, rq]
Deliver(r, out) ==
    /\ SetClient(out.c)
    /\ IF out.rq.pc = "done"
       THEN Continue(r, [req EXCEPT ![r] = out.rq], out.c)
       ELSE /\ req' = [req EXCEPT ![r] = out.rq]
            /\ UNCHANGED <<call, gc, data, last_update_success, ui, action>>

\* A command of the client starts, up to its first HTTP request.
ApiCall(cmd) ==
    /\ call.pc # "running"
    /\ gc.pc # "running"
    /\ call' = [IdleCall EXCEPT !.pc = "running", !.cmd = cmd]
    /\ req' = [req EXCEPT ![CmdReq] = Enter(Client, FreshReq, TRUE, now)]
    /\ UNCHANGED <<now, access_token, refresh_token, token_expiry, gc, data,
                   last_update_success, last_auth, ui>>

\* One of the four commands of the client is called.
CallCommand(cmd) ==
    /\ ApiCall(cmd)
    /\ UNCHANGED action

\* async_turn_on and async_turn_off of the switch of charger d
SwitchCommand(d, cmd) ==
    /\ d \in entities["switch"]
    /\ action' = [IdleAction EXCEPT !.pc = "running", !.entity = "switch", !.charger = d]
    /\ ApiCall(cmd)

\* async_set_native_value of the number of charger d, value h/2 amperes
SetNativeValue(d, h) ==
    /\ d \in entities["number"]
    /\ action' = [IdleAction EXCEPT
                     !.pc = "running", !.entity = "number", !.charger = d, !.value = h,
                     !.target = Value(Target(h, native_max_value[d])),
                     !.payload = Value(CurrentLimitPayload(Target(h, native_max_value[d])))]
    /\ ApiCall("set_current_limit")

\* async_select_option of the select of charger d
SelectOption(d, option) ==
    /\ d \in entities["select"]
    /\ LET check == SelectCheck(select_options[d], data, d, option)
           act == [IdleAction EXCEPT !.entity = "select", !.charger = d, !.option = option]
       IN  IF check = "call"
           THEN /\ action' = [act EXCEPT !.pc = "running",
                                         !.target = Value(ModeId(option)),
                                         !.payload = Value(ModeId(option))]
                /\ ApiCall("set_schedule_mode")
           ELSE /\ call.pc # "running"
                /\ gc.pc # "running"
                /\ action' = IF check = "current"
                              THEN [act EXCEPT !.pc = "returned"]
                              ELSE [act EXCEPT !.pc = "raised",
                                               !.error = "HomeAssistantError"]
                /\ UNCHANGED <<now, access_token, refresh_token, token_expiry, req,
                               call, gc, data, last_update_success, last_auth, ui>>


\* get_chargers starts: GET /chargers
StartGetChargers(caller, c) ==
    /\ gc' = [IdleGC EXCEPT !.pc = "running", !.caller = caller]
    /\ req' = [r \in ReqIds |->
                 IF r = ListReq THEN Enter(c, FreshReq, TRUE, now)
                 ELSE IF r \in FragReqs THEN FreshReq
                 ELSE req[r]]

\* The timer of the coordinator fires: _async_update_data calls get_chargers.
PollTick ==
    /\ gc.pc # "running"
    /\ \/ gc.caller \in {"none", "coordinator"}
       \/ gc.caller = "setup" /\ hass.state = "loaded"
    /\ call.pc # "running"
    /\ StartGetChargers("coordinator", Client)
    /\ UNCHANGED <<now, access_token, refresh_token, token_expiry, call, data,
                   last_update_success, last_auth, ui, action>>

\* The config flow validates the input of the user: a new client, without
\* tokens, and one get_chargers.
ValidateInput ==
    /\ gc.pc # "running"
    /\ gc.caller \in {"none", "config_flow"}
    /\ call.pc # "running"
    /\ SetClient([access |-> NoToken, refresh |-> "none", expiry |-> NoExpiry])
    /\ StartGetChargers("config_flow",
                        [access |-> NoToken, refresh |-> "none", expiry |-> NoExpiry])
    /\ UNCHANGED <<now, call, data, last_update_success, last_auth, ui, action>>

\* NexblueDataUpdateCoordinator.__init__ and the start of the first
\* refresh: a new coordinator with a new client, its interval read from the
\* options o of the entry
NewCoordinator(o) ==
    /\ update_interval' = ScanInterval(o)
    /\ data' = NoData
    /\ last_update_success' = TRUE
    /\ SetClient([access |-> NoToken, refresh |-> "none", expiry |-> NoExpiry])
    /\ StartGetChargers("setup",
                        [access |-> NoToken, refresh |-> "none", expiry |-> NoExpiry])

\* async_setup_entry: a new coordinator with a new client, and its first
\* refresh
SetupEntry ==
    /\ hass.state \in {"none", "not_ready"}
    /\ gc.pc # "running"
    /\ call.pc # "running"
    /\ hass' = [hass EXCEPT !.state = "running"]
    /\ NewCoordinator(options)
    /\ UNCHANGED <<now, call, last_auth, entities, added, native_max_value,
                   select_options, last_seen, options, action>>

\* The options flow is submitted with scan interval v. A value the schema
\* of the form rejects changes nothing. An accepted one becomes the options
\* of the entry; when the update listener is registered and the options
\* have changed, async_reload_entry reloads the entry: async_unload_entry
\* takes the platforms, their entities and the coordinator away, and
\* async_setup_entry runs again. (A reload is taken between two poll cycles
\* and two commands.)
OptionsFlow(v) ==
    /\ call.pc # "running"
    /\ hass.state = "loaded" => gc.pc # "running"
    /\ IF ~SchemaAccepts(v)
       THEN UNCHANGED vars
       ELSE /\ options' = Value(v)
            /\ IF UpdateListener(hass) /\ options # Value(v)
               THEN /\ hass' = [UnloadEntry(hass) EXCEPT !.state = "running"]
                    /\ entities' = [p \in PLATFORMS |-> {}]
                    /\ added' = [p \in PLATFORMS |-> [d \in Serials |-> 0]]
                    /\ native_max_value' = [d \in Serials |-> MAX_CURRENT_LIMIT]
                    /\ select_options' = [d \in Serials |-> NoOptions]
                    /\ last_seen' = [d \in Serials |-> NoRecord]
                    /\ NewCoordinator(Value(v))
                    /\ UNCHANGED <<now, call, last_auth, action>>
               ELSE UNCHANGED <<now, access_token, refresh_token, token_expiry, req,
                                call, gc, data, last_update_success, last_auth, hass,
                                entities, added, native_max_value, select_options,
                                last_seen, update_interval, action>>

\* The answer to a refresh request arrives.
RefreshResponse(r, a) ==
    /\ req[r].pc \in {"ens_refresh", "un_refresh"}
    /\ Deliver(r, IF req[r].pc = "ens_refresh"
                  THEN OnEnsureRefresh(Client, req[r], a, now)
                  ELSE OnUnauthorizedRefresh(Client, req[r], a, now))
    /\ last_auth' = AuthCall("refresh", Client, a, now)
    /\ UNCHANGED now

\* The answer to a login request arrives.
LoginResponse(r, a) ==
    /\ req[r].pc \in {"ens_login", "un_login"}
    /\ Deliver(r, IF req[r].pc = "ens_login"
                  THEN OnEnsureLogin(Client, req[r], a, now)
                  ELSE OnUnauthorizedLogin(Client, req[r], a, now))
    /\ last_auth' = AuthCall("login", Client, a, now)
    /\ UNCHANGED now

\* The answer to the request itself arrives.
Response(r, resp) ==
    /\ req[r].pc = "sent"
    /\ resp.status = "401" => Total401 < Max401
    /\ Deliver(r, OnResponse(Client, req[r], resp, now))
    /\ UNCHANGED <<now, last_auth>>

\* Time passes.
Tick(dt) ==
    /\ now + dt <= MaxTime
    /\ now' = now + dt
    /\ UNCHANGED <<access_token, refresh_token, token_expiry, req, call, gc, data,
                   last_update_success, last_auth, ui, action>>

\* Time passes between two poll cycles.
Wait(dt) ==
    /\ gc.pc # "running"
    /\ Tick(dt)

(* ----------------------- what the server may answer ------------------- *)
ExpiresIn == {-5, 0, 10, 30, 31, 35, 40}
RefreshTokens == {"none", "r1", "r2"}
Durations == {5}

AuthFailures ==
    {AuthResp(s, "empty", NoAuthData) : s \in {"401", "http_error", "client_error", "timeout"}}
    \cup {AuthResp("ok", k, NoAuthData) : k \in {"empty", "text"}}
AuthBodies ==
    {AuthData(acc, TRUE, e, rt) : acc \in BOOLEAN, e \in ExpiresIn, rt \in RefreshTokens}
    \cup {AuthData(acc, FALSE, 0, rt) : acc \in BOOLEAN, rt \in RefreshTokens}
AuthResponses == AuthFailures \cup {AuthResp("ok", "dict", d) : d \in AuthBodies}

Failures == {Resp(s, "empty", FALSE, 0, {}, FALSE) : s \in Statuses \ {"ok"}}
ResultCodes == {0, 1, -2}
CommandResponses ==
    Failures
    \cup {Resp("ok", k, FALSE, 0, {}, FALSE) : k \in BodyKinds}
    \cup {Resp("ok", "dict", TRUE, code, {}, FALSE) : code \in ResultCodes}

(* -------------------------- specifications ---------------------------- *)
Init ==
    /\ now = 0
    /\ access_token = NoToken
    /\ refresh_token = "none"
    /\ token_expiry = NoExpiry
    /\ req = [r \in ReqIds |-> FreshReq]
    /\ call = IdleCall
    /\ gc = IdleGC
    /\ data = NoData
    /\ last_update_success = TRUE
    /\ last_auth = NoAuth
    /\ hass = NoHass
    /\ entities = [p \in PLATFORMS |-> {}]
    /\ added = [p \in PLATFORMS |-> [d \in Serials |-> 0]]
    /\ native_max_value = [d \in Serials |-> MAX_CURRENT_LIMIT]
    /\ select_options = [d \in Serials |-> NoOptions]
    /\ last_seen = [d \in Serials |-> NoRecord]
    /\ options = Value(DEFAULT_SCAN_INTERVAL)
    /\ update_interval = 0
    /\ action = IdleAction

\* One client serving the commands of the entities, one after the other.
NextRequest ==
    \/ \E cmd \in Commands : CallCommand(cmd)
    \/ \E a \in AuthResponses : RefreshResponse(CmdReq, a)
    \/ \E a \in AuthResponses : LoginResponse(CmdReq, a)
    \/ \E resp \in CommandResponses : Response(CmdReq, resp)
    \/ \E dt \in Durations : Tick(dt)

SpecRequest == Init /\ [][NextRequest]_vars

\* One client serving one command after the other, with fewer kinds of
\* answers, and with every HTTP exchange coming to an end: the server
\* answers, the connection fails, or the total timeout of REQUEST_TIMEOUT
\* strikes.
EndingAuthResponses ==
    {AuthResp(st, "empty", NoAuthData) : st \in {"401", "http_error", "timeout"}}
    \cup {AuthResp("ok", "dict", AuthData(TRUE, TRUE, 35, "r1")),
          AuthResp("ok", "dict", AuthData(TRUE, FALSE, 0, "none")),
          AuthResp("ok", "dict", AuthData(FALSE, FALSE, 0, "none"))}
EndingResponses == Failures \cup {Resp("ok", "empty", FALSE, 0, {}, FALSE)}
NextEnding ==
    \/ CallCommand("start_charging")
    \/ \E a \in EndingAuthResponses : RefreshResponse(CmdReq, a)
    \/ \E a \in EndingAuthResponses : LoginResponse(CmdReq, a)
    \/ \E resp \in EndingResponses : Response(CmdReq, resp)
    \/ \E dt \in Durations : Tick(dt)

SpecEnding ==
    /\ Init /\ [][NextEnding]_vars
    /\ WF_vars(\E a \in EndingAuthResponses : RefreshResponse(CmdReq, a))
    /\ WF_vars(\E a \in EndingAuthResponses : LoginResponse(CmdReq, a))
    /\ WF_vars(\E resp \in EndingResponses : Response(CmdReq, resp))

\* What the server answers while a poll cycle runs: fewer kinds of token
\* answers (a token that lasts 5 seconds with a refresh token, one that lasts
\* an hour without, an answer without access token, an error, a timeout).
CycleAuthResponses ==
    {AuthResp("http_error", "empty", NoAuthData),
     AuthResp("timeout", "empty", NoAuthData),
     AuthResp("ok", "dict", AuthData(TRUE, TRUE, 35, "r1")),
     AuthResp("ok", "dict", AuthData(TRUE, FALSE, 0, "none")),
     AuthResp("ok", "dict", AuthData(FALSE, FALSE, 0, "none"))}

ListResponses(devices) ==
    Failures
    \cup {Resp("ok", k, FALSE, 0, {}, FALSE) : k \in {"empty", "text"}}
    \cup {Resp("ok", "dict", FALSE, 0, rels, FALSE) : rels \in SUBSET devices}

\* the answers to the request of fragment f: the failures, and the bodies
\* of the kinds given; only a detail object has an online flag
FragmentResponses(f, failures, kinds, onlines) ==
    {Resp(s, "empty", FALSE, 0, {}, FALSE) : s \in failures}
    \cup {Resp("ok", k, FALSE, 0, {}, FALSE) : k \in kinds \ {"dict"}}
    \cup {Resp("ok", "dict", FALSE, 0, {}, online) :
             online \in IF f = "detail" THEN onlines ELSE {FALSE}}
FragmentFailures == {"http_error", "client_error", "timeout"}

\* The coordinator polling an account that has one charger and one relation
\* without serial number.
PollDevices == {"A", NoSerial}
NextPoll ==
    \/ PollTick
    \/ \E r \in {ListReq} \cup FragReqs, a \in CycleAuthResponses : RefreshResponse(r, a)
    \/ \E r \in {ListReq} \cup FragReqs, a \in CycleAuthResponses : LoginResponse(r, a)
    \/ \E resp \in ListResponses(PollDevices) : Response(ListReq, resp)
    \/ \E r \in FragReqs :
          \E resp \in FragmentResponses(r[2], FragmentFailures, {"dict"}, BOOLEAN) :
              Response(r, resp)
    \/ \E dt \in Durations : Wait(dt)

SpecPoll == Init /\ [][NextPoll]_vars

\* The config flow fetching the chargers of an account that has two chargers
\* and one relation without serial number.
FetchDevices == Serials \cup {NoSerial}
NextFetch ==
    \/ ValidateInput
    \/ \E r \in {ListReq} \cup FragReqs, a \in CycleAuthResponses : RefreshResponse(r, a)
    \/ \E r \in {ListReq} \cup FragReqs, a \in CycleAuthResponses : LoginResponse(r, a)
    \/ \E resp \in ListResponses(FetchDevices) : Response(ListReq, resp)
    \/ \E r \in FragReqs :
          \E resp \in FragmentResponses(r[2], FragmentFailures, {"dict"}, {TRUE}) :
              Response(r, resp)

SpecFetch == Init /\ [][NextFetch]_vars

\* The first poll cycle of a coordinator, over one charger whose three
\* requests may each be answered 401; time passes, and the token may expire,
\* while the device list is being fetched.
BurstAuthResponses ==
    {AuthResp("http_error", "empty", NoAuthData),
     AuthResp("ok", "dict", AuthData(TRUE, TRUE, 35, "r1")),
     AuthResp("ok", "dict", AuthData(TRUE, FALSE, 0, "none"))}
BurstDevices == {"A"}
NextBurst ==
    \/ gc.pc = "idle" /\ PollTick
    \/ \E r \in {ListReq} \cup FragReqs, a \in BurstAuthResponses : RefreshResponse(r, a)
    \/ \E r \in {ListReq} \cup FragReqs, a \in BurstAuthResponses : LoginResponse(r, a)
    \/ Response(ListReq, Resp("ok", "dict", FALSE, 0, BurstDevices, FALSE))
    \/ \E r \in FragReqs :
          \E resp \in FragmentResponses(r[2], {"401"}, {"dict"}, {TRUE}) :
              Response(r, resp)
    \/ \E dt \in Durations : (gc.pc = "running" => gc.phase = "list") /\ Tick(dt)

SpecBurst == Init /\ [][NextBurst]_vars

\* One config entry of an account with one charger: its setup, the first
\* poll cycle after it, and the service calls of the entities of the
\* charger. The token lasts an hour and no time passes.
EntityDevices == {"A"}
EntityAuthResponses ==
    {AuthResp("http_error", "empty", NoAuthData),
     AuthResp("ok", "dict", AuthData(TRUE, FALSE, 0, "none"))}
EntityListResponses ==
    {Resp("http_error", "empty", FALSE, 0, {}, FALSE),
     Resp("ok", "dict", FALSE, 0, {}, FALSE),
     Resp("ok", "dict", FALSE, 0, EntityDevices, FALSE)}
Fuses == {NoValue, Value(0), Value(20), Value(40)}
EntityFragmentResponses(f) ==
    IF f = "detail"
    THEN {Resp("http_error", "empty", FALSE, 0, {}, FALSE)}
         \cup {DetailResp(TRUE, fuse) : fuse \in Fuses}
    ELSE IF f = "schedule"
    THEN {ScheduleResp(NoValue, FALSE), ScheduleResp(Value(0), TRUE),
          ScheduleResp(Value(1), FALSE)}
    ELSE {Resp("ok", "dict", FALSE, 0, {}, FALSE)}
EntityCommandResponses ==
    {Resp(st, "empty", FALSE, 0, {}, FALSE) : st \in {"ok", "http_error", "timeout", "401"}}
    \cup {Resp("ok", "dict", TRUE, 1, {}, FALSE)}
HalfAmperes == {5, 15, 80}
Options == {"off_peak", "eco", "schedule_charge"}
NextEntity ==
    \/ SetupEntry
    \/ hass.state = "loaded" /\ gc.caller = "setup" /\ PollTick
    \/ \E r \in {ListReq, CmdReq}, a \in EntityAuthResponses : LoginResponse(r, a)
    \/ \E resp \in EntityListResponses : Response(ListReq, resp)
    \/ \E r \in FragReqs : \E resp \in EntityFragmentResponses(r[2]) : Response(r, resp)
    \/ \E d \in EntityDevices, cmd \in {"start_charging", "stop_charging"} :
          SwitchCommand(d, cmd)
    \/ \E d \in EntityDevices, h \in HalfAmperes : SetNativeValue(d, h)
    \/ \E d \in EntityDevices, o \in Options : SelectOption(d, o)
    \/ \E resp \in EntityCommandResponses : Response(CmdReq, resp)

SpecEntity == Init /\ [][NextEntity]_vars

\* One config entry whose options flow is used: the setup, the polling and
\* the options flow, of an account with one charger.
ScanIntervals == {29, 30, 45, 600, 601}
NextOptions ==
    \/ SetupEntry
    \/ hass.state = "loaded" /\ PollTick
    \/ \E v \in ScanIntervals : OptionsFlow(v)
    \/ \E a \in EntityAuthResponses : LoginResponse(ListReq, a)
    \/ \E resp \in EntityListResponses : Response(ListReq, resp)
    \/ \E r \in FragReqs : Response(r, Resp("ok", "dict", FALSE, 0, {}, TRUE))

SpecOptions == Init /\ [][NextOptions]_vars

\* One config entry over many poll cycles: the chargers of the account come
\* and go and their schedule fragment fails, lacks a mode, holds a known
\* mode or an unknown one.
DiscoveryLists == {{}, {"A"}, {"B"}, {"A", "B"}}
DiscoveryListResponses ==
    {Resp("http_error", "empty", FALSE, 0, {}, FALSE)}
    \cup {Resp("ok", "dict", FALSE, 0, rels, FALSE) : rels \in DiscoveryLists}
DiscoveryFragmentResponses(f) ==
    IF f = "schedule"
    THEN {Resp("http_error", "empty", FALSE, 0, {}, FALSE),
          ScheduleResp(NoValue, FALSE), ScheduleResp(Value(2), FALSE),
          ScheduleResp(Value(5), FALSE)}
    ELSE {Resp("ok", "dict", FALSE, 0, {}, TRUE)}
NextDiscovery ==
    \/ SetupEntry
    \/ hass.state = "loaded" /\ PollTick
    \/ \E a \in EntityAuthResponses : LoginResponse(ListReq, a)
    \/ \E resp \in DiscoveryListResponses : Response(ListReq, resp)
    \/ \E r \in FragReqs : \E resp \in DiscoveryFragmentResponses(r[2]) : Response(r, resp)

SpecDiscovery == Init /\ [][NextDiscovery]_vars

\* The select entity of one charger over the polls of the coordinator: the
\* schedule fragment fails, lacks a mode or holds any mode with either
\* regulatory flag, and every option is asked for, one that no mode has
\* among them.
SelectScheduleResponses ==
    {Resp("http_error", "empty", FALSE, 0, {}, FALSE), ScheduleResp(NoValue, TRUE)}
    \cup {ScheduleResp(Value(m), uk_reg) : m \in {0, 1, 2, 5}, uk_reg \in BOOLEAN}
SelectCommandResponses ==
    {Resp("ok", "empty", FALSE, 0, {}, FALSE), Resp("http_error", "empty", FALSE, 0, {}, FALSE),
     Resp("ok", "dict", TRUE, 1, {}, FALSE)}
SelectOptions == Options \cup {"boost"}
NextSelect ==
    \/ SetupEntry
    \/ hass.state = "loaded" /\ PollTick
    \/ \E a \in EntityAuthResponses : LoginResponse(ListReq, a)
    \/ \E resp \in EntityListResponses : Response(ListReq, resp)
    \/ \E r \in FragReqs :
          \E resp \in (IF r[2] = "schedule" THEN SelectScheduleResponses
                        ELSE {Resp("ok", "dict", FALSE, 0, {}, TRUE)}) :
              Response(r, resp)
    \/ \E d \in EntityDevices, o \in SelectOptions : SelectOption(d, o)
    \/ \E resp \in SelectCommandResponses : Response(CmdReq, resp)

SpecSelect == Init /\ [][NextSelect]_vars

(* ------------------------------ claims -------------------------------- *)
\* C1: a logical request goes to the server at most twice, and when both
\* sends were answered 401 the request has ended in NexblueAuthError.
C1_OneRetryOn401 ==
    \A r \in ReqIds :
        /\ req[r].sends <= 2
        /\ req[r].n401 <= req[r].sends
        /\ req[r].n401 = 2 => req[r].pc = "done" /\ req[r].outcome = "AuthError"

C1_Witness ==
    \E r \in ReqIds :
        req[r].n401 = 2 /\ req[r].sends = 2 /\ req[r].outcome = "AuthError"

\* C2: in every re-authentication, of _ensure_access_token and of
\* _handle_unauthorized alike, the refresh is tried first when a refresh
\* token is held, and the login is used when none is held or when the
\* refresh failed.
C2_RefreshBeforeLoginOnBothPaths ==
    \A r \in ReqIds :
        LET ra == req[r].reauth
        IN  ra.via # "none" =>
              /\ ra.held => ra.refresh # "no"
              /\ ra.login # "no" => (~ra.held \/ ra.refresh = "failed")
              /\ ~ra.held => ra.login # "no"
              /\ ra.refresh = "failed" => ra.login # "no"

\* C3 as stated: no request is sent with a token that the server lets
\* expire less than TOKEN_SAFETY_MARGIN seconds later.
C3_NeverWithinMargin ==
    \A r \in ReqIds :
        req[r].sends > 0 => req[r].hdr.exp - req[r].sent_at >= TOKEN_SAFETY_MARGIN

\* C3 amended: a token issued with expires_in above the margin is never sent
\* with less than the margin left; a token issued with expires_in of at most
\* the margin is sent only during the MIN_TOKEN_LIFETIME seconds after it was
\* issued, whatever is left of it.
C3_MarginOrFloor ==
    \A r \in ReqIds :
        req[r].sends > 0 =>
            LET tk == req[r].hdr
            IN  /\ tk.held
                /\ tk.exp - tk.issued > TOKEN_SAFETY_MARGIN
                     => tk.exp - req[r].sent_at > TOKEN_SAFETY_MARGIN
                /\ tk.exp - tk.issued <= TOKEN_SAFETY_MARGIN
                     => req[r].sent_at - tk.issued < MIN_TOKEN_LIFETIME

\* a token of 40 seconds is sent 5 seconds after it was issued, and a request
\* that found the stored expiry reached has authenticated again
C3_Witness ==
    \E r \in ReqIds :
        /\ req[r].sends > 0
        /\ req[r].hdr.exp - req[r].hdr.issued > TOKEN_SAFETY_MARGIN
        /\ req[r].sent_at > req[r].hdr.issued
        /\ token_expiry # NoExpiry /\ now >= token_expiry

\* C7: a command raises NexblueCommandError exactly when the answer is an
\* object whose result code is present and not 0, for each of the four
\* commands.
C7_CommandErrorIffNonZero ==
    call.pc \in {"returned", "raised"} /\ req[CmdReq].outcome = "ok" =>
        LET body == req[CmdReq].resp
            bad == body.kind = "dict" /\ body.has_result /\ body.result # 0
        IN  /\ (call.pc = "raised" /\ call.error = "CommandError") <=> bad
            /\ call.pc = "returned" <=> ~bad
            /\ bad => call.code = body.result

C7_Witness ==
    /\ call.pc = "returned" /\ call.cmd = "set_schedule_mode"
    /\ req[CmdReq].resp.kind = "dict" /\ req[CmdReq].resp.has_result
    /\ req[CmdReq].resp.result = 0

\* C8: whatever goes wrong in a request, its caller sees a NexblueAPIError
\* (NexblueAuthError and NexblueCommandError are its subclasses).
C8_OnlyAPIErrors ==
    call.pc = "raised" => call.error \in {"APIError", "AuthError", "CommandError"}

\* C4 as stated: once the published snapshot holds a charger it is never
\* empty again.
C4_NeverEmptyAgain == [][NonEmpty(data) => NonEmpty(data')]_vars

\* C4 amended: a poll tick that fails leaves the published snapshot as it
\* was, and a snapshot that held a charger becomes empty only by a tick whose
\* get_chargers returned normally for a device list without serial numbers.
C4_EmptiedOnlyBySuccess ==
    [][/\ (gc.pc = "running" /\ gc'.pc = "done" /\ gc'.raised # "none") => data' = data
       /\ (NonEmpty(data) /\ ~NonEmpty(data')) =>
             /\ gc.pc = "running" /\ gc'.pc = "done"
             /\ gc'.raised = "none"
             /\ Listed(gc'.rels) = {}
             /\ req'[ListReq].outcome = "ok"]_vars

C4_Witness ==
    /\ NonEmpty(data)
    /\ gc.pc = "done" /\ gc.raised # "none"
    /\ ~last_update_success

\* the record get_chargers must hold for a listed device: what each request
\* that ended well returned, {} for a failed detail or status, None for a
\* failed schedule
C5_Expected(d, f) ==
    LET rq == req[FragReq(d, f)]
    IN  IF rq.outcome = "ok"
        THEN IF rq.resp.kind = "empty" THEN EmptyFragment
             ELSE [Fragment(rq.resp.kind, rq.resp.online) EXCEPT
                       !.fuse = rq.resp.fuse, !.mode = rq.resp.mode,
                       !.uk_reg = rq.resp.uk_reg]
        ELSE IF f = "schedule" THEN NoneFragment ELSE EmptyFragment

\* C5: whatever subset of the three fragment requests of a listed device
\* fails, get_chargers returns a record for the device, with the fragments
\* that arrived and the failed ones empty; and it returns a record for
\* every other listed device from that device's own requests.
C5_FragmentFailureIsolated ==
    /\ gc.phase = "fragments" => gc.raised = "none"
    /\ (gc.pc = "done" /\ gc.phase = "fragments") =>
          /\ DOMAIN gc.result = Listed(gc.rels)
          /\ \A d \in Listed(gc.rels) :
                /\ gc.result[d].detail = C5_Expected(d, "detail")
                /\ gc.result[d].status = C5_Expected(d, "status")
                /\ gc.result[d].schedule = C5_Expected(d, "schedule")

\* the example of the specification: A complete, the status of B failed
C5_Witness ==
    /\ gc.pc = "done" /\ DOMAIN gc.result = {"A", "B"}
    /\ \A f \in Fragments : gc.result["A"][f].kind = "dict"
    /\ req[FragReq("B", "status")].outcome # "ok"
    /\ gc.result["B"].status = EmptyFragment
    /\ gc.result["B"].detail.kind = "dict"
    /\ gc.result["B"].schedule.kind = "dict"

\* the step in which the coordinator learns how its get_chargers ended
C6_TickEnds == gc.pc = "running" /\ gc'.pc = "done" /\ gc'.caller = "coordinator"

\* C6: a tick whose get_chargers raised leaves the snapshot as it was and
\* clears last_update_success, so that no entity is available, and a
\* NexblueAPIError reaches the coordinator as UpdateFailed; a tick whose
\* get_chargers returned publishes the returned dict and sets
\* last_update_success.
C6_FailedTickKeepsSnapshot ==
    [][C6_TickEnds =>
         IF gc'.raised = "none"
         THEN /\ data' = Snapshot(gc'.result)
              /\ last_update_success'
              /\ gc'.seen = "none"
         ELSE /\ data' = data
              /\ ~last_update_success'
              /\ gc'.raised \in APIErrors => gc'.seen = "UpdateFailed"
              /\ \A d \in Serials :
                    /\ ~SensorAvailable(d)'
                    /\ ~SwitchAvailable(d)'
                    /\ ~NumberAvailable(d)'
                    /\ ~SelectAvailable(d)']_vars

\* a tick failed with UpdateFailed behind a snapshot in which a charger was
\* online and had a schedule
C6_Witness ==
    /\ gc.pc = "done" /\ gc.seen = "UpdateFailed"
    /\ ~last_update_success
    /\ \E d \in DOMAIN data.chargers :
          Online(data.chargers[d]) /\ data.chargers[d].schedule.kind # "none"

\* C9: an HTTP error of a fragment request stays in its fragment, while a
\* network error of a fragment request comes out of get_chargers (as the
\* NexblueAPIError that _request makes of it).
C9_NetworkErrorPropagates ==
    \A r \in FragReqs :
        (gc.pc = "done" /\ req[r].pc = "done" /\ req[r].resp.status = "client_error")
            => gc.raised = "APIError"
\* the last answer was one that _update_tokens was called with
C13_Updated == last_auth.op # "none" /\ last_auth.status = "ok" /\ last_auth.kind = "dict"

\* the expires_in that _update_tokens is to work with: 3600 when the answer
\* has none, 0 for a negative one
C13_ExpiresIn ==
    IF ~last_auth.d.has_exp THEN 3600
    ELSE IF last_auth.d.expires_in < 0 THEN 0
    ELSE last_auth.d.expires_in

\* the last login answered with an access token and expires_in and without
\* refresh token, and nothing has changed the tokens since
C12_LoginWithoutRefresh ==
    /\ last_auth.op = "login" /\ last_auth.raised = "none"
    /\ last_auth.d.access /\ last_auth.d.has_exp /\ last_auth.d.refresh = "none"

\* C12: after a login whose answer holds an access token and expires_in but
\* no refresh token, no refresh token is stored, whatever was held before;
\* and a request issued once the stored expiry is reached starts with a
\* login request, without any refresh request and before it is sent itself.
C12_LoginNotRefreshAfterExpiry ==
    [][/\ C12_LoginWithoutRefresh' =>
             (refresh_token' = "none" /\ last_auth'.after.refresh = "none")
       /\ (/\ C12_LoginWithoutRefresh
           /\ token_expiry # NoExpiry /\ now >= token_expiry
           /\ call.pc # "running" /\ call'.pc = "running")
          => /\ req'[CmdReq].pc = "ens_login"
             /\ req'[CmdReq].reauth.refresh = "no"
             /\ req'[CmdReq].reauth.login = "sent"
             /\ req'[CmdReq].sends = 0]_vars

\* a refresh token was held before that login, and a request issued after
\* the stored expiry is waiting for its login
C12_Witness ==
    /\ C12_LoginWithoutRefresh /\ last_auth.held # "none"
    /\ refresh_token = "none"
    /\ token_expiry # NoExpiry /\ now >= token_expiry
    /\ req[CmdReq].pc = "ens_login" /\ req[CmdReq].reauth.via = "ensure"

\* C13 as stated: the floor of 5 seconds applies when expires_in is below
\* the margin, and the stored expiry is now + (expires_in - 30) otherwise.
C13_FloorBelowMargin ==
    C13_Updated =>
        last_auth.after.expiry =
            last_auth.at + (IF C13_ExpiresIn < 30 THEN 5 ELSE C13_ExpiresIn - 30)

\* C13 amended: the floor of 5 seconds applies when expires_in is at most
\* the margin (30 included), the stored expiry is now + (expires_in - 30)
\* above it; and the call raises NexblueAuthError exactly when the answer
\* holds no access token.
C13_FloorAtOrBelowMargin ==
    C13_Updated =>
        /\ last_auth.after.expiry =
              last_auth.at + (IF C13_ExpiresIn <= 30 THEN 5 ELSE C13_ExpiresIn - 30)
        /\ last_auth.raised = (IF last_auth.d.access THEN "none" ELSE "AuthError")

\* an answer with expires_in = 30 at a time after 0 was stored with the floor
C13_Witness ==
    /\ C13_Updated /\ last_auth.raised = "none"
    /\ last_auth.d.has_exp /\ last_auth.d.expires_in = 30
    /\ last_auth.at > 0
    /\ token_expiry = last_auth.at + 5

\* C14: a successful refresh leaves the refresh token that was held unless
\* the answer holds one, which then replaces it; a successful login stores
\* the refresh token of its answer, none when the answer holds none.
C14_RefreshTokenKept ==
    (C13_Updated /\ last_auth.raised = "none") =>
        /\ last_auth.op = "refresh" =>
              last_auth.after.refresh =
                  (IF last_auth.d.refresh # "none" THEN last_auth.d.refresh
                   ELSE last_auth.held)
        /\ last_auth.op = "login" => last_auth.after.refresh = last_auth.d.refresh
        /\ refresh_token = last_auth.after.refresh

\* a refresh answered without refresh token while r1 was held
C14_Witness ==
    /\ C13_Updated /\ last_auth.raised = "none"
    /\ last_auth.op = "refresh" /\ last_auth.d.refresh = "none"
    /\ last_auth.held = "r1" /\ refresh_token = "r1"
\* C17: a request ends in NexblueAuthError only for a problem of the
\* credentials or tokens (a second 401, or a login or refresh that the
\* server refused or answered without access token); when the login or
\* refresh request itself failed in the network, the caller sees a
\* NexblueAPIError that is no NexblueAuthError.
C17_TransportFailureIsNotAuthError ==
    (call.pc = "raised" /\ call.error = "AuthError") =>
        \/ req[CmdReq].n401 = 2
        \/ last_auth.status \notin {"client_error", "timeout"}
\* C19: the dict that get_chargers returns has exactly the serial numbers of
\* the device list as keys, a relation without serial number left out; no
\* request (and no login or refresh on its behalf) is made for a relation
\* without serial number, for a device that is not listed, or before the
\* list has arrived, so none at all for an empty list.
C19_KeysAreListedSerials ==
    /\ (gc.pc = "done" /\ gc.raised = "none") =>
          DOMAIN gc.result = {d \in gc.rels : d # ""}
    /\ \A r \in FragReqs :
          (r[1] = "" \/ r[1] \notin gc.rels \/ gc.phase = "list") =>
              /\ req[r].pc = "idle" /\ req[r].sends = 0
              /\ req[r].reauth.via = "none"

\* a list of A and a relation without serial number: A alone is returned
C19_Witness ==
    /\ gc.pc = "done" /\ gc.raised = "none"
    /\ gc.rels = {"A", ""}
    /\ DOMAIN gc.result = {"A"}
    /\ \A f \in Fragments : req[FragReq("A", f)].sends > 0
\* the requests that have a refresh or login request of their own under way
C20_Authenticating ==
    {r \in ReqIds : req[r].pc \in {"ens_refresh", "ens_login", "un_refresh", "un_login"}}

\* C20: nothing serialises the authentication of concurrent requests: every
\* fragment request that is answered 401 on its first send, and every one
\* that starts while the stored token is not valid, makes a refresh or login
\* request of its own, whatever the other requests are doing.
C20_EachRequestAuthenticatesItself ==
    [][\A r \in FragReqs :
          /\ (req[r].pc = "sent" /\ req[r].retry /\ req'[r].n401 = req[r].n401 + 1)
                => r \in C20_Authenticating'
          /\ (req[r].pc = "idle" /\ req'[r].pc # "idle" /\ ~TokenValid(Client, now))
                => r \in C20_Authenticating']_vars

\* two requests of one charger, both answered 401, are waiting for their
\* own refresh request at the same moment
C20_Witness ==
    /\ req[FragReq("A", "detail")].pc = "un_refresh"
    /\ req[FragReq("A", "status")].pc = "un_refresh"
    /\ Cardinality(C20_Authenticating) >= 2

\* C11: setup fails fast. When the first fetch of async_setup_entry ends in an
\* error the entry is not ready, the coordinator is not registered and no
\* platform is set up; the coordinator is registered and the platforms are
\* forwarded only when the first fetch has returned, with its result
\* published, so entities exist only over a published snapshot.
C11_SetupFailsFast ==
    [][ /\ hass'.state = "not_ready" =>
              /\ ~hass'.registered
              /\ hass'.platforms = {}
              /\ \A p \in PLATFORMS : entities'[p] = {}
        /\ (hass'.registered \/ hass'.platforms # {}
                \/ \E p \in PLATFORMS : entities'[p] # {}) =>
              hass'.state = "loaded" /\ ~data'.none
        /\ (gc.pc = "running" /\ gc'.pc = "done" /\ gc'.caller = "setup") =>
              IF gc'.raised # "none"
              THEN hass'.state = "not_ready" /\ data'.none
              ELSE /\ hass' = [state |-> "loaded", registered |-> TRUE,
                               platforms |-> PLATFORMS]
                   /\ data' = Snapshot(gc'.result) ]_vars

\* the first fetch of a setup has failed
C11_Witness ==
    /\ hass.state = "not_ready"
    /\ gc.caller = "setup"
    /\ gc.pc = "done"
    /\ gc.raised # "none"

\* C15: the number entity clamps. The value the number entity passes to
\* set_current_limit is the requested value, rounded, clamped into 6 ..
\* max_configurable_current of the record of its charger the entity last
\* saw, which is the record of the current snapshot while the snapshot holds
\* the charger; the client puts the value it is given into the request.
C15_Clamp(v, lo, hi) == IF v < lo THEN lo ELSE IF v > hi THEN hi ELSE v

C15_ClampedByNumberEntity ==
    [][ (action.pc # "running" /\ action'.pc = "running" /\ action'.entity = "number") =>
            LET d == action'.charger
            IN  /\ d \in DOMAIN data.chargers => last_seen[d] = data.chargers[d]
                /\ action'.target =
                       Value(C15_Clamp(Round(action'.value), 6,
                                       MaxConfigurableCurrent(last_seen[d])))
                /\ action'.payload = action'.target ]_vars

\* 40 A are requested of a charger whose fuse is rated 20 A: 20 are sent
C15_Witness ==
    /\ action.entity = "number"
    /\ action.value = 80
    /\ "A" \in DOMAIN data.chargers
    /\ CircuitFuse(data.chargers["A"]) = Value(20)
    /\ action.payload = Value(20)

\* C16: max_configurable_current of every record of the snapshot is
\* max(6, min(32, fuse)) when the detail holds a fuse rating and 32 when it
\* holds none or is empty, and lies in 6..32.
C16_MaxConfigurableCurrent ==
    \A d \in DOMAIN data.chargers :
        LET rec == data.chargers[d]
            m == MaxConfigurableCurrent(rec)
            fuse == rec.detail.fuse
        IN  /\ m \in 6..32
            /\ IF rec.detail.kind = "dict" /\ fuse.has
               THEN m = (IF fuse.val > 32 THEN 32 ELSE IF fuse.val < 6 THEN 6 ELSE fuse.val)
               ELSE m = 32

\* a charger whose fuse rating is below 6 A
C16_Witness ==
    \E d \in DOMAIN data.chargers :
        /\ data.chargers[d].detail.fuse.has
        /\ data.chargers[d].detail.fuse.val < 6
        /\ MaxConfigurableCurrent(data.chargers[d]) = 6

\* C18: a command of an entity that fails. When the call of the client
\* raises NexblueCommandError the service call raises an error with the
\* result code in its message, when it raises another NexblueAPIError an
\* error without, and in both cases no refresh of the coordinator is
\* requested; a refresh is requested only when the call has returned.
C18_CommandFailurePropagates ==
    [][ /\ action'.refresh => action'.pc = "returned" /\ call'.pc = "returned"
        /\ (action.pc = "running" /\ action'.pc # "running") =>
              /\ call'.pc = "returned" => action'.pc = "returned" /\ action'.refresh
              /\ call'.pc = "raised" => action'.pc = "raised" /\ ~action'.refresh
              /\ (call'.pc = "raised" /\ call'.error = "CommandError") =>
                    /\ action'.error = "HomeAssistantError"
                    /\ action'.code = Value(ResultCode(req'[CmdReq].resp).code)
              /\ (call'.pc = "raised" /\ call'.error \in {"APIError", "AuthError"}) =>
                    /\ action'.error = "HomeAssistantError"
                    /\ ~action'.code.has ]_vars

\* a command answered with result code 1 has ended in an error that names it
C18_Witness ==
    /\ action.pc = "raised"
    /\ action.entity \in {"switch", "number", "select"}
    /\ call.error = "CommandError"
    /\ action.code = Value(1)
    /\ ~action.refresh

\* C22: the poll interval. The interval of a coordinator is the option value
\* (60 s when the options hold none) read when the coordinator is built and
\* changes at no other moment; every change of the options of an entry that
\* has a coordinator reloads the entry, which builds a coordinator with the
\* new interval; and the options only ever hold an interval of 30..600 s.
C22_Built == hass.state # "running" /\ hass'.state = "running"

C22_OptionsUpdateReloads ==
    [][ /\ update_interval' # update_interval => C22_Built
        /\ C22_Built => update_interval' = (IF options'.has THEN options'.val ELSE 60)
        /\ (options' # options /\ hass.state \in {"running", "loaded"}) => C22_Built
        /\ options'.has => options'.val \in 30..600 ]_vars

\* C23: the Authorization header. Whenever an auth-required request goes to
\* the server, whatever the other requests are doing, its Authorization
\* header is the access token stored at that moment, and one is stored; the
\* refresh and login requests made on behalf of a request carry no
\* Authorization header.
C23_AuthorizationHeader ==
    [][ \A r \in ReqIds :
          /\ (req'[r].pc = "sent" /\ req[r].pc # "sent") =>
                /\ req'[r].hdr.held
                /\ req'[r].hdr = access_token'
          /\ req'[r].pc \in {"ens_refresh", "ens_login", "un_refresh", "un_login"} =>
                ~req'[r].reauth.hdr.held ]_vars

\* a request sent again after a 401 carries the new token while another
\* request of the same charger is in flight with the token it was sent with
C23_Witness ==
    \E r1, r2 \in FragReqs :
        /\ req[r1].pc = "sent" /\ req[r1].sends = 2
        /\ req[r1].hdr = access_token
        /\ req[r2].pc = "sent" /\ req[r2].hdr.held
        /\ req[r2].hdr # access_token

\* C24: _ensure_access_token. When a request starts, it goes to the server
\* at once, with no refresh or login request and the token state as it
\* was, exactly when an access token is held and now is before the stored
\* expiry; in every other state (no token, no expiry, now at or after the
\* expiry) a refresh or login request is made first and the request itself
\* has not gone out.
C24_Starts == call.pc # "running" /\ call'.pc = "running"

C24_EnsureNoOpIffValid ==
    [][ C24_Starts =>
          /\ <<access_token', refresh_token', token_expiry'>>
                = <<access_token, refresh_token, token_expiry>>
          /\ IF access_token.held /\ token_expiry # NoExpiry /\ now < token_expiry
             THEN /\ req'[CmdReq].pc = "sent"
                  /\ req'[CmdReq].sends = 1
                  /\ req'[CmdReq].reauth = NoReauth
             ELSE /\ req'[CmdReq].pc \in {"ens_refresh", "ens_login"}
                  /\ req'[CmdReq].sends = 0
                  /\ req'[CmdReq].reauth.via = "ensure" ]_vars

\* a request that started at the very moment of the stored expiry is
\* refreshing or logging in
C24_Witness ==
    /\ call.pc = "running"
    /\ req[CmdReq].pc \in {"ens_refresh", "ens_login"}
    /\ req[CmdReq].sends = 0
    /\ access_token.held
    /\ now = token_expiry

\* C25: the retry on 401. The first 401 to a request clears the stored
\* access token and expiry, and a refresh or login request is then under
\* way; the request goes to the server a second time only when that
\* re-authentication has succeeded, then with retry off, and never a third
\* time; when the re-authentication fails the request is not sent again and
\* ends in NexblueAuthError.
C25_RetryAfter401 ==
    [][ LET old == req[CmdReq]
            new == req'[CmdReq]
        IN  /\ (old.pc = "sent" /\ old.n401 = 0 /\ new.n401 = 1) =>
                  /\ access_token' = NoToken
                  /\ token_expiry' = NoExpiry
                  /\ new.pc \in {"un_refresh", "un_login"}
                  /\ new.sends = 1
            /\ new.sends <= 2
            /\ (old.sends = 1 /\ new.sends = 2) =>
                  /\ old.pc \in {"un_refresh", "un_login"}
                  /\ new.reauth.refresh = "ok" \/ new.reauth.login = "ok"
                  /\ ~new.retry
                  /\ access_token'.held
            /\ (old.pc \in {"un_refresh", "un_login"} /\ new.pc = "done") =>
                  /\ new.sends = 1
                  /\ new.outcome = "AuthError" ]_vars

\* C26: the order within one get_chargers. No fragment request exists before
\* the device list has arrived; once it has, the requests under way or
\* ended are exactly the three of each relation that has a serial number;
\* get_chargers ends only when every one of them has ended; and the
\* published snapshot changes only in the step in which get_chargers
\* returns, to the dict it returns.
C26_Launched == {r \in FragReqs : req[r].pc # "idle"}

C26_JoinBarrier ==
    [][ /\ C26_Launched' # {} =>
              /\ gc'.phase = "fragments"
              /\ req'[ListReq].pc = "done" /\ req'[ListReq].outcome = "ok"
        /\ gc'.phase = "fragments" =>
              C26_Launched' = {FragReq(d, f) : d \in gc'.rels \ {NoSerial}, f \in Fragments}
        /\ (gc'.pc = "done" /\ gc'.phase = "fragments") =>
              \A r \in C26_Launched' : req'[r].pc = "done"
        /\ (gc'.pc = "running" /\ gc'.phase = "fragments") =>
              \E r \in C26_Launched' : req'[r].pc # "done"
        /\ data' # data =>
              /\ gc.pc = "running" /\ gc'.pc = "done" /\ gc'.raised = "none"
              /\ \A r \in C26_Launched' : req'[r].pc = "done"
              /\ data' = Snapshot(gc'.result) ]_vars

\* two requests of a charger have ended, the third is out, and the snapshot
\* of the cycle before is still the published one
C26_Witness ==
    /\ gc.pc = "running" /\ gc.phase = "fragments"
    /\ req[FragReq("A", "detail")].pc = "done"
    /\ req[FragReq("A", "status")].pc = "done"
    /\ req[FragReq("A", "schedule")].pc # "done"
    /\ ~data.none

\* how far a logical request has come: before its first send (refreshing,
\* then logging in), sent, re-authenticating after a 401, sent again, ended
C27_Rank(rq) ==
    CASE rq.pc = "idle" -> 0
      [] rq.pc = "ens_refresh" -> 1
      [] rq.pc = "ens_login" -> 2
      [] rq.pc = "sent" /\ rq.sends = 1 -> 3
      [] rq.pc \in {"un_refresh", "un_login"} -> 4
      [] rq.pc = "sent" /\ rq.sends = 2 -> 5
      [] rq.pc = "done" -> 6
      [] OTHER -> 7

\* C27: re-authentication does not recurse and a command ends. Every step of
\* a request takes it further in the order refresh, login, send,
\* re-authentication, second send, end, so that it makes at most five HTTP
\* requests; a login or refresh answered 401 or with another error status
\* raises NexblueAuthError without another attempt and without the request
\* being sent (in _ensure_access_token a failed refresh is followed by the
\* one login); and every command that has started ends.
C27_NoRecursionAndTermination ==
    /\ [][ LET old == req[CmdReq]
               new == req'[CmdReq]
           IN  /\ C27_Rank(new) <= 6
               /\ (new # old /\ old.pc \notin {"idle", "done"}) =>
                     C27_Rank(new) > C27_Rank(old)
               /\ (new # old /\ old.pc \in {"ens_refresh", "ens_login", "un_refresh",
                                             "un_login"}
                     /\ last_auth'.status \in {"401", "http_error"}) =>
                     /\ last_auth'.raised = "AuthError"
                     /\ new.sends = old.sends
                     /\ IF old.pc = "ens_refresh"
                        THEN new.pc = "ens_login"
                        ELSE new.pc = "done" /\ new.outcome = "AuthError" ]_vars
    /\ (call.pc = "running") ~> (call.pc # "running")

\* a login answered 401 has ended the request in NexblueAuthError, unsent
C27_Witness ==
    /\ req[CmdReq].pc = "done" /\ req[CmdReq].outcome = "AuthError"
    /\ req[CmdReq].sends = 0
    /\ last_auth.op = "login" /\ last_auth.status = "401"

\* what a request that failed on the 401 path over a rejected refresh leaves:
\* no access token, no expiry, the refresh token still stored
C28_Dead == ~access_token.held /\ token_expiry = NoExpiry /\ refresh_token # "none"

\* C28: recovery from a refresh token the server rejects. A request that
\* ends on the 401 path because the refresh was refused ends in
\* NexblueAuthError and leaves the refresh token stored with access token
\* and expiry cleared; the next request then starts with a refresh, goes on
\* to the login when the refresh is refused again, and when the login is
\* answered with an access token it stores the tokens of the login and is
\* sent with the new token; answered without error it succeeds.
C28_RecoversByLogin ==
    [][ LET old == req[CmdReq]
            new == req'[CmdReq]
            refused == last_auth'.status \in {"401", "http_error"}
        IN  /\ (old.pc = "un_refresh" /\ new.pc = "done" /\ refused) =>
                  /\ new.outcome = "AuthError"
                  /\ C28_Dead'
                  /\ refresh_token' = refresh_token
            /\ (call.pc # "running" /\ call'.pc = "running" /\ C28_Dead) =>
                  new.pc = "ens_refresh"
            /\ (old.pc = "ens_refresh" /\ new # old /\ refused) =>
                  /\ new.pc = "ens_login"
                  /\ <<access_token', refresh_token', token_expiry'>>
                        = <<access_token, refresh_token, token_expiry>>
            /\ (old.pc = "ens_login" /\ new # old /\ last_auth'.status = "ok"
                  /\ last_auth'.kind = "dict" /\ last_auth'.d.access) =>
                  /\ new.pc = "sent" /\ new.sends = 1
                  /\ access_token'.held /\ new.hdr = access_token'
                  /\ access_token'.issued = now
                  /\ token_expiry' # NoExpiry /\ now < token_expiry'
                  /\ refresh_token' = last_auth'.d.refresh
            /\ (old.pc = "sent" /\ new.pc = "done" /\ new.resp.status = "ok") =>
                  /\ new.outcome = "ok"
                  /\ call'.pc = "returned" \/ call'.error = "CommandError" ]_vars

\* the request after the failure: its refresh was refused again and its
\* login is under way
C28_Witness ==
    /\ C28_Dead
    /\ req[CmdReq].pc = "ens_login"
    /\ req[CmdReq].reauth.via = "ensure"
    /\ req[CmdReq].reauth.refresh = "failed"
    /\ last_auth.op = "refresh" /\ last_auth.status \in {"401", "http_error"}

\* C29: a failed login or refresh leaves the tokens. When a login or refresh
\* raises (error status, network failure, timeout, a body that is no
\* object, an object without access token) the stored refresh token and the
\* stored expiry are as before; and the token state changes only when a
\* login or refresh succeeds and when a 401 clears it.
C29_FailedAuthLeavesTokens ==
    [][ LET old == req[CmdReq]
            new == req'[CmdReq]
            answered == /\ old.pc \in {"ens_refresh", "ens_login", "un_refresh", "un_login"}
                        /\ new # old
        IN  /\ (answered /\ last_auth'.raised # "none") =>
                  /\ refresh_token' = refresh_token
                  /\ token_expiry' = token_expiry
            /\ <<access_token', refresh_token', token_expiry'>>
                  # <<access_token, refresh_token, token_expiry>> =>
                  \/ answered /\ last_auth'.raised = "none"
                  \/ old.pc = "sent" /\ new.n401 = old.n401 + 1 ]_vars

\* the validity window that _update_tokens gives an answer with expires_in e
C30_Window(e) == NewExpiry([has_exp |-> TRUE, expires_in |-> e], 0)

\* C30 as stated: for every integer expires_in of a successful login or refresh the
\* stored expiry lies at least 5 seconds after the answer, and the validity
\* window does not shrink as expires_in grows: no smaller expires_in would
\* have been given a longer window.
C30_FloorAndMonotone ==
    (C13_Updated /\ last_auth.raised = "none" /\ last_auth.d.has_exp) =>
        LET window == last_auth.after.expiry - last_auth.at
        IN  /\ window >= MIN_TOKEN_LIFETIME
            /\ \A e \in ExpiresIn :
                  e <= last_auth.d.expires_in => C30_Window(e) <= window

\* C30 amended: the stored expiry always lies after the answer; it lies at
\* least MIN_TOKEN_LIFETIME seconds after it except for an expires_in of 1 to
\* 4 seconds above the margin, which gives a window of that many seconds;
\* and the window does not shrink as expires_in grows among the values at or
\* below the margin and among the values above it.
C30_FloorOrMargin ==
    (C13_Updated /\ last_auth.raised = "none" /\ last_auth.d.has_exp) =>
        LET window == last_auth.after.expiry - last_auth.at
            over == last_auth.d.expires_in - TOKEN_SAFETY_MARGIN
        IN  /\ window >= 1
            /\ over \in 1..(MIN_TOKEN_LIFETIME - 1) => window = over
            /\ over \notin 1..(MIN_TOKEN_LIFETIME - 1) => window >= MIN_TOKEN_LIFETIME
            /\ \A e \in ExpiresIn :
                  (e <= last_auth.d.expires_in /\ (e <= TOKEN_SAFETY_MARGIN) = (over <= 0))
                      => C30_Window(e) <= window

\* a token answered with expires_in = 31 is stored with a window of one
\* second and the request is sent with it
C30_Witness ==
    /\ C13_Updated /\ last_auth.raised = "none"
    /\ last_auth.d.has_exp /\ last_auth.d.expires_in = TOKEN_SAFETY_MARGIN + 1
    /\ token_expiry = last_auth.at + 1
    /\ req[CmdReq].pc = "sent" /\ req[CmdReq].hdr = access_token

\* get_chargers has ended and the discovery callbacks of the platforms run on
\* the snapshot published: at the setup of the platforms and as listeners
\* of the coordinator afterwards
C31_Notified == gc.pc = "running" /\ gc'.pc = "done" /\ hass'.platforms # {}

\* C31: discovery is exactly-once per charger. The sensor, switch and number
\* platforms make the entities of a charger once, in the first notification
\* whose snapshot holds the charger, and never again, also when the charger
\* leaves the snapshot and comes back; the select platform makes its entity
\* once, in the first notification whose snapshot holds the charger with a
\* schedule fragment and a schedule mode that is a known one.
C31_DiscoveredExactlyOnce ==
    [][ \A d \in Serials :
          LET present == C31_Notified /\ d \in DOMAIN data'.chargers
              schedule == data'.chargers[d].schedule
              known == /\ present
                       /\ schedule.kind = "dict"
                       /\ schedule.mode.has
                       /\ schedule.mode.val \in {0, 1, 2}
          IN  /\ \A p \in {"sensor", "switch", "number"} :
                    /\ added'[p][d] =
                          (IF present /\ added[p][d] = 0 THEN 1 ELSE added[p][d])
                    /\ added'[p][d] = 1 <=> d \in entities'[p]
              /\ added'["select"][d] =
                    (IF known /\ added["select"][d] = 0 THEN 1 ELSE added["select"][d])
              /\ added'["select"][d] = 1 <=> d \in entities'["select"]
              /\ \A p \in PLATFORMS : added'[p][d] <= 1 ]_vars

\* the entities of charger A were made once, the snapshot published since
\* holds no charger A, and the device list of the poll under way holds it
\* again
C31_Witness ==
    /\ \A p \in PLATFORMS : added[p]["A"] = 1
    /\ hass.state = "loaded" /\ ~data.none /\ "A" \notin DOMAIN data.chargers
    /\ gc.pc = "running" /\ gc.phase = "fragments" /\ "A" \in gc.rels

\* async_select_option of the select entity is called
C32_Selects == action.pc # "running" /\ action'.entity = "select" /\ action' # action

\* the call goes on to the client
C32_Called == call.pc # "running" /\ call'.pc = "running"

\* the schedule mode of the charger in the snapshot, "none" without one
C32_Current(d) ==
    IF d \in DOMAIN data.chargers THEN ScheduleMode(data.chargers[d]) ELSE "none"

\* the slugs of SCHEDULE_MODE_MAP
C32_Slugs == {SCHEDULE_MODE_MAP[m] : m \in DOMAIN SCHEDULE_MODE_MAP}

\* set_schedule_mode is called with a selectable code only, with 0 only
\* when uk_reg was true in the snapshot
C32_SelectableCode ==
    C32_Called =>
        /\ call'.cmd = "set_schedule_mode"
        /\ action'.payload.has /\ action'.payload = action'.target
        /\ action'.payload.val \in {0, 2}
        /\ SCHEDULE_MODE_MAP[action'.payload.val] = action'.option
        /\ action'.charger \in DOMAIN data.chargers
        /\ action'.payload.val = 0 => UkReg(data.chargers[action'.charger])

\* C32 as stated: set_schedule_mode is called only with a code of {0, 2},
\* with 0 only if uk_reg was true in the snapshot last observed; selecting
\* eco or an unknown option raises an error without a call of the client;
\* selecting the current mode makes no call of the client and no refresh.
C32_SelectGuards ==
    [][ C32_Selects =>
          /\ C32_SelectableCode
          /\ (action'.option = "eco" \/ action'.option \notin C32_Slugs) =>
                /\ action'.pc = "raised" /\ action'.error = "HomeAssistantError"
                /\ ~C32_Called /\ req' = req
          /\ action'.option = C32_Current(action'.charger) =>
                /\ ~C32_Called /\ req' = req /\ ~action'.refresh ]_vars

\* C32 amended: as stated, but selecting eco raises the error only when eco
\* is not the current mode; selecting the current mode, eco included,
\* returns without error, call of the client or refresh.
C32_SelectGuardsButCurrent ==
    [][ C32_Selects =>
          /\ C32_SelectableCode
          /\ (/\ action'.option = "eco" \/ action'.option \notin C32_Slugs
              /\ action'.option # C32_Current(action'.charger)) =>
                /\ action'.pc = "raised" /\ action'.error = "HomeAssistantError"
                /\ ~C32_Called /\ req' = req
          /\ action'.option = C32_Current(action'.charger) =>
                /\ action'.pc = "returned" /\ action'.error = "none"
                /\ ~C32_Called /\ req' = req /\ ~action'.refresh ]_vars

\* eco is the current mode of the charger and was selected: the call has
\* returned without a call of the client
C32_Witness ==
    /\ action.entity = "select" /\ action.option = "eco" /\ action.pc = "returned"
    /\ C32_Current(action.charger) = "eco"
    /\ ~action.refresh /\ ~action.payload.has /\ call.pc = "idle"

====
